---- MODULE Spec2Model ----
(***************************************************************************)
(* Order lifecycle and dual-escrow settlement of the delivery marketplace  *)
(* (src/App.tsx).  The backend tables (orders, bids, wallets,              *)
(* transactions) are shared by all clients.  Every client is one signed-in *)
(* user running App: it holds a cached order list (`orders` state), a      *)
(* cached wallet (`currentUser.wallet`) and at most one handler in flight. *)
(* A handler is cut at its `await`s: the caller's cache is read when the   *)
(* handler starts and each backend call is a step of its own, except that  *)
(* the insert into transactions goes with the wallet update it follows     *)
(* (no handler reads the transactions table, so nothing can tell the two   *)
(* apart but the order of the log).  A fetch (fetchAndSetData,             *)
(* fetchWallet) is issued by the realtime channels on every change and by  *)
(* every handler when it ends; it is a step when it has something to do.   *)
(***************************************************************************)
EXTENDS Integers, Sequences, FiniteSets, TLC

\* ------------------------------------------------------------------ bounds
MaxOrders == 1        \* orders ever created
MaxBids == 2          \* rows of the bids table
MaxTx == 4            \* rows of the transactions table
MaxClock == 2         \* bid timestamps handed out
OpeningBalance == 3   \* funds a wallet row is created with

Stores == {"store"}
Riders == {"rider"}
Users == Stores \cup Riders
OrderIds == 1..MaxOrders
Prices == {3}             \* product prices a store enters
SuggestedFees == {2}      \* delivery fees a store suggests
BidAmounts == {1, 2}      \* fees a courier proposes

\* the OrderStatus members App.tsx names
BIDDING == "BIDDING"
AWAITING_ESCROW == "AWAITING_ESCROW"
READY_FOR_PICKUP == "READY_FOR_PICKUP"
COMPLETED == "COMPLETED"
Statuses == {BIDDING, AWAITING_ESCROW, READY_FOR_PICKUP, COMPLETED}

NoUser == "none"      \* a null deliveryGuyId
NoBid == 0            \* a null chosenBidId

VARIABLES
  orders,        \* orders table: OrderIds -> row
  bids,          \* bids table: sequence of rows, a bid's id is its index
  wallets,       \* wallets table: Users -> row
  transactions,  \* transactions table, in timestamp order
  clock,         \* the backend's time, for bid timestamps
  cache,         \* per client: the order list last fetched (orders with bids)
  walletCache,   \* per client: currentUser.wallet
  pc,            \* per client: the handler in flight and its locals
  sweepQueue     \* self-healing updates issued and not yet applied

vars == <<orders, bids, wallets, transactions, clock, cache, walletCache, pc,
          sweepQueue>>

NoOrder == [exists |-> FALSE, storeId |-> NoUser, productPrice |-> 0,
            suggestedDeliveryFee |-> 0, status |-> BIDDING, chosenBidId |-> NoBid,
            deliveryGuyId |-> NoUser, storeDeposited |-> FALSE, riderDeposited |-> FALSE]
NoWallet == [exists |-> FALSE, balance |-> 0, escrow |-> 0]
Idle == [at |-> "idle"]

Init ==
  /\ orders = [o \in OrderIds |-> NoOrder]
  /\ bids = << >>
  /\ wallets = [u \in Users |-> NoWallet]
  /\ transactions = << >>
  /\ clock = 0
  /\ cache = [c \in Users |-> [orders |-> [o \in OrderIds |-> NoOrder], bids |-> << >>]]
  /\ walletCache = [c \in Users |-> NoWallet]
  /\ pc = [c \in Users |-> Idle]
  /\ sweepQueue = {}

\* ------------------------------------------------------------- helpers
Min(S) == CHOOSE x \in S : \A y \in S : x <= y

Rank(s) ==
  CASE s = BIDDING -> 0
    [] s = AWAITING_ESCROW -> 1
    [] s = READY_FOR_PICKUP -> 2
    [] s = COMPLETED -> 3

\* orders.find(o => o.id === orderId) on the client's cached list
CachedOrder(c, o) == cache[c].orders[o]

\* order.bids of a cached order: the ids of the bids fetched with it
CachedBidIds(c, o) == {i \in DOMAIN cache[c].bids : cache[c].bids[i].orderId = o}

\* the fee with the selected bid ignored: always order.deliveryFeeOffer
FeeSuggested(c, o) == CachedOrder(c, o).suggestedDeliveryFee

\* selectedBid ? selectedBid.amount : order.deliveryFeeOffer
Fee(c, o) ==
  LET ord == CachedOrder(c, o)
  IN  IF ord.chosenBidId \in CachedBidIds(c, o)
      THEN cache[c].bids[ord.chosenBidId].proposedFee
      ELSE ord.suggestedDeliveryFee

\* a row of the transactions table; the description names the product
Tx(u, amt, type, kind, o) ==
  [user_id |-> u, amount |-> amt, type |-> type, description |-> <<kind, o>>]

\* What the portals offer, from the client's cached order: the store sees its
\* own orders; a bid and a selection are offered while the order is BIDDING,
\* a deposit while it is AWAITING_ESCROW and that deposit is not yet shown as
\* paid, a later status once it is READY_FOR_PICKUP.
StoreSees(c, o) ==
  c \in Stores /\ CachedOrder(c, o).exists /\ CachedOrder(c, o).storeId = c
OffersBid(c, o) ==
  c \in Riders /\ CachedOrder(c, o).exists /\ CachedOrder(c, o).status = BIDDING
OffersSelect(c, o) ==
  StoreSees(c, o) /\ CachedOrder(c, o).status = BIDDING
OffersStoreDeposit(c, o) ==
  /\ StoreSees(c, o)
  /\ CachedOrder(c, o).status = AWAITING_ESCROW
  /\ ~CachedOrder(c, o).storeDeposited
OffersRiderDeposit(c, o) ==
  /\ c \in Riders
  /\ CachedOrder(c, o).exists
  /\ CachedOrder(c, o).deliveryGuyId = c
  /\ CachedOrder(c, o).status = AWAITING_ESCROW
  /\ ~CachedOrder(c, o).riderDeposited
OffersStatus(c, o, s) ==
  /\ CachedOrder(c, o).exists
  /\ c \in {CachedOrder(c, o).storeId, CachedOrder(c, o).deliveryGuyId}
  /\ Rank(CachedOrder(c, o).status) >= Rank(READY_FOR_PICKUP)
  /\ Rank(s) > Rank(CachedOrder(c, o).status)

\* ------------------------------------------------------------ refreshes
\* the self-healing test with one deposit taken for both
StuckOnStoreDeposit(ords) ==
  {o \in OrderIds : /\ ords[o].exists
                    /\ ords[o].status = AWAITING_ESCROW
                    /\ ords[o].storeDeposited}

\* the orders the self-healing pass of a fetch rewrites
Stuck(ords) ==
  {o \in OrderIds : /\ ords[o].exists
                    /\ ords[o].status = AWAITING_ESCROW
                    /\ ords[o].storeDeposited
                    /\ ords[o].riderDeposited}

\* fetchAndSetData: read orders with their bids, issue the self-healing
\* updates, set the cached list
Refresh(c) ==
  /\ \/ cache[c] # [orders |-> orders, bids |-> bids]
     \/ ~(Stuck(orders) \subseteq sweepQueue)
  /\ cache' = [cache EXCEPT ![c] = [orders |-> orders, bids |-> bids]]
  /\ sweepQueue' = sweepQueue \cup Stuck(orders)
  /\ UNCHANGED <<orders, bids, wallets, transactions, clock, walletCache, pc>>

\* the self-healing update writing back the status it found
HealedStatusKept == AWAITING_ESCROW

\* the status a self-healing update writes
HealedStatus == READY_FOR_PICKUP

\* the self-healing update routed through the payout: it also pays the store
SweepWritePaying(o) ==
  /\ o \in sweepQueue
  /\ orders' = [orders EXCEPT ![o].status = HealedStatus]
  /\ sweepQueue' = sweepQueue \ {o}
  /\ wallets' = [wallets EXCEPT ![orders[o].storeId].balance =
                                  @ + orders[o].productPrice]
  /\ UNCHANGED <<bids, transactions, clock, cache, walletCache, pc>>

\* one self-healing update reaches the orders table
SweepWrite(o) ==
  /\ o \in sweepQueue
  /\ orders' = [orders EXCEPT ![o].status = HealedStatus]
  /\ sweepQueue' = sweepQueue \ {o}
  /\ UNCHANGED <<bids, wallets, transactions, clock, cache, walletCache, pc>>

\* fetchWallet: create the wallet row if absent, then cache it
FetchWallet(c) ==
  /\ ~wallets[c].exists \/ walletCache[c] # wallets[c]
  /\ wallets' = IF wallets[c].exists THEN wallets
                ELSE [wallets EXCEPT ![c] = [exists |-> TRUE,
                                             balance |-> OpeningBalance, escrow |-> 0]]
  /\ walletCache' = [walletCache EXCEPT ![c] = wallets'[c]]
  /\ UNCHANGED <<orders, bids, transactions, clock, cache, pc,
                 sweepQueue>>

\* ------------------------------------------------------------- handlers
CreateOrder(c, price, fee) ==
  /\ c \in Stores
  /\ pc[c] = Idle
  /\ \E o \in OrderIds :
       /\ ~orders[o].exists
       /\ \A p \in OrderIds : p < o => orders[p].exists
       /\ orders' = [orders EXCEPT ![o] =
            [exists |-> TRUE, storeId |-> c, productPrice |-> price,
             suggestedDeliveryFee |-> fee, status |-> BIDDING,
             chosenBidId |-> NoBid, deliveryGuyId |-> NoUser,
             storeDeposited |-> FALSE, riderDeposited |-> FALSE]]
  /\ UNCHANGED <<bids, wallets, transactions, clock, cache, walletCache, pc, sweepQueue>>

\* the bids table after placeBid by c on o, decided on c's cached bids
BidsAfterPlace(c, o, amount) ==
  LET mine == {i \in CachedBidIds(c, o) : cache[c].bids[i].deliveryGuyId = c}
  IN  IF mine # {}
      THEN [bids EXCEPT ![Min(mine)].proposedFee = amount,
                        ![Min(mine)].timestamp = clock + 1]
      ELSE Append(bids, [orderId |-> o, deliveryGuyId |-> c,
                         proposedFee |-> amount, timestamp |-> clock + 1])

PlaceBid(c, o, amount) ==
  /\ pc[c] = Idle
  /\ OffersBid(c, o)
  /\ clock < MaxClock
  /\ Len(BidsAfterPlace(c, o, amount)) <= MaxBids
  /\ bids' = BidsAfterPlace(c, o, amount)
  /\ clock' = clock + 1
  /\ UNCHANGED <<orders, wallets, transactions, cache, walletCache, pc, sweepQueue>>

\* selectBidder without the courier: the update omits delivery_guy_id
SelectBidderNoCourier(c, o, bidId) ==
  /\ pc[c] = Idle
  /\ OffersSelect(c, o)
  /\ bidId \in CachedBidIds(c, o)
  /\ orders' = [orders EXCEPT ![o].chosenBidId = bidId,
                              ![o].status = AWAITING_ESCROW]
  /\ UNCHANGED <<bids, wallets, transactions, clock, cache, walletCache, pc, sweepQueue>>

SelectBidder(c, o, bidId) ==
  /\ pc[c] = Idle
  /\ OffersSelect(c, o)
  /\ bidId \in CachedBidIds(c, o)
  /\ orders' = [orders EXCEPT ![o].chosenBidId = bidId,
                              ![o].deliveryGuyId = cache[c].bids[bidId].deliveryGuyId,
                              ![o].status = AWAITING_ESCROW]
  /\ UNCHANGED <<bids, wallets, transactions, clock, cache, walletCache, pc, sweepQueue>>

\* the wallet row a deposit of amt writes, computed from the cached wallet
Deposited(w, amt) ==
  [exists |-> TRUE, balance |-> w.balance - amt, escrow |-> w.escrow + amt]

\* payStoreEscrow up to the order read: the checks, the wallet update and
\* the OUT transaction
PayStoreEscrow(c, o) ==
  /\ pc[c] = Idle
  /\ OffersStoreDeposit(c, o)
  /\ walletCache[c].exists
  /\ walletCache[c].balance >= Fee(c, o)
  /\ Len(transactions) < MaxTx
  /\ wallets' = [wallets EXCEPT ![c] = Deposited(walletCache[c], Fee(c, o))]
  /\ transactions' = Append(transactions,
                            Tx(c, Fee(c, o), "OUT", "Escrow deposit", o))
  /\ pc' = [pc EXCEPT ![c] = [at |-> "store_read", o |-> o]]
  /\ UNCHANGED <<orders, bids, clock, cache, walletCache, sweepQueue>>

\* payStoreEscrow: read the order's riderDeposited afresh
StoreDepositRead(c) ==
  /\ pc[c].at = "store_read"
  /\ pc' = [pc EXCEPT ![c] = [at |-> "store_order", o |-> pc[c].o,
                              isPaid |-> orders[pc[c].o].riderDeposited]]
  /\ UNCHANGED <<orders, bids, wallets, transactions, clock, cache, walletCache,
                 sweepQueue>>

\* isRiderPaid / isStorePaid ? READY_FOR_PICKUP : AWAITING_ESCROW
NewStatus(isPaid) == IF isPaid THEN READY_FOR_PICKUP ELSE AWAITING_ESCROW

\* payStoreEscrow: write storeDeposited and the status
StoreDepositOrder(c) ==
  /\ pc[c].at = "store_order"
  /\ orders' = [orders EXCEPT ![pc[c].o].storeDeposited = TRUE,
                              ![pc[c].o].status = NewStatus(pc[c].isPaid)]
  /\ pc' = [pc EXCEPT ![c] = Idle]
  /\ UNCHANGED <<bids, wallets, transactions, clock, cache, walletCache,
                 sweepQueue>>

\* payDeliveryEscrow up to the order read: the checks, the wallet update and
\* the OUT transaction
PayDeliveryEscrow(c, o) ==
  /\ pc[c] = Idle
  /\ OffersRiderDeposit(c, o)
  /\ walletCache[c].exists
  /\ walletCache[c].balance >= CachedOrder(c, o).productPrice
  /\ Len(transactions) < MaxTx
  /\ wallets' = [wallets EXCEPT
                   ![c] = Deposited(walletCache[c], CachedOrder(c, o).productPrice)]
  /\ transactions' = Append(transactions,
       Tx(c, CachedOrder(c, o).productPrice, "OUT", "Product collateral", o))
  /\ pc' = [pc EXCEPT ![c] = [at |-> "rider_read", o |-> o]]
  /\ UNCHANGED <<orders, bids, clock, cache, walletCache, sweepQueue>>

\* payDeliveryEscrow: read the order's storeDeposited afresh
RiderDepositRead(c) ==
  /\ pc[c].at = "rider_read"
  /\ pc' = [pc EXCEPT ![c] = [at |-> "rider_order", o |-> pc[c].o,
                              isPaid |-> orders[pc[c].o].storeDeposited]]
  /\ UNCHANGED <<orders, bids, wallets, transactions, clock, cache, walletCache,
                 sweepQueue>>

\* payDeliveryEscrow: write riderDeposited and the status
RiderDepositOrder(c) ==
  /\ pc[c].at = "rider_order"
  /\ orders' = [orders EXCEPT ![pc[c].o].riderDeposited = TRUE,
                              ![pc[c].o].status = NewStatus(pc[c].isPaid)]
  /\ pc' = [pc EXCEPT ![c] = Idle]
  /\ UNCHANGED <<bids, wallets, transactions, clock, cache, walletCache,
                 sweepQueue>>

\* payStoreEscrow with the balance check placed after the wallet update
RejectStoreDepositLate(c, o) ==
  /\ pc[c] = Idle
  /\ OffersStoreDeposit(c, o)
  /\ ~(walletCache[c].exists /\ walletCache[c].balance >= Fee(c, o))
  /\ wallets' = [wallets EXCEPT ![c] = Deposited(walletCache[c], Fee(c, o))]
  /\ pc' = [pc EXCEPT ![c] = [at |-> "alert", o |-> o]]
  /\ UNCHANGED <<orders, bids, transactions, clock, cache, walletCache, sweepQueue>>

\* payStoreEscrow refused: the wallet is not loaded or its cached balance is
\* below the fee; the handler raises the alert and returns
RejectStoreDeposit(c, o) ==
  /\ pc[c] = Idle
  /\ OffersStoreDeposit(c, o)
  /\ ~(walletCache[c].exists /\ walletCache[c].balance >= Fee(c, o))
  /\ pc' = [pc EXCEPT ![c] = [at |-> "alert", o |-> o]]
  /\ UNCHANGED <<orders, bids, wallets, transactions, clock, cache,
                 walletCache, sweepQueue>>

\* payDeliveryEscrow refused: the wallet is not loaded or its cached balance
\* is below the product price
RejectRiderDeposit(c, o) ==
  /\ pc[c] = Idle
  /\ OffersRiderDeposit(c, o)
  /\ ~(walletCache[c].exists
       /\ walletCache[c].balance >= CachedOrder(c, o).productPrice)
  /\ pc' = [pc EXCEPT ![c] = [at |-> "alert", o |-> o]]
  /\ UNCHANGED <<orders, bids, wallets, transactions, clock, cache,
                 walletCache, sweepQueue>>

\* the user closes the alert box
DismissAlert(c) ==
  /\ pc[c].at = "alert"
  /\ pc' = [pc EXCEPT ![c] = Idle]
  /\ UNCHANGED <<orders, bids, wallets, transactions, clock, cache,
                 walletCache, sweepQueue>>

\* the wallet row the payout writes: balance + gain, escrow - release
Released(w, gain, release) ==
  [exists |-> TRUE, balance |-> w.balance + gain, escrow |-> w.escrow - release]

\* the payout cut short: the handler returns after the store's half
RiderHalfAbandoned(loc) == Idle

\* where updateOrderStatus goes once the store's half is done or skipped
RiderHalf(loc) ==
  IF loc.rider # NoUser
  THEN [at |-> "settle_rider_read", o |-> loc.o, fee |-> loc.fee,
        price |-> loc.price, rider |-> loc.rider]
  ELSE Idle

\* updateOrderStatus up to its first await, as the function itself runs for
\* an order the client holds: the guard on the cached status, then the status
\* update; COMPLETED goes on to the payout
UpdateOrderStatusCall(c, o, status) ==
  /\ pc[c] = Idle
  /\ CachedOrder(c, o).exists
  /\ CachedOrder(c, o).status # status
  /\ orders' = [orders EXCEPT ![o].status = status]
  /\ pc' = [pc EXCEPT ![c] =
       IF status = COMPLETED
       THEN [at |-> "settle_store_read", o |-> o, fee |-> Fee(c, o),
             price |-> CachedOrder(c, o).productPrice,
             storeId |-> CachedOrder(c, o).storeId,
             rider |-> CachedOrder(c, o).deliveryGuyId]
       ELSE Idle]
  /\ UNCHANGED <<bids, wallets, transactions, clock, cache, walletCache,
                 sweepQueue>>

\* updateOrderStatus as a portal calls it
UpdateOrderStatus(c, o, status) ==
  /\ OffersStatus(c, o, status)
  /\ UpdateOrderStatusCall(c, o, status)

\* payout: fetch the store's wallet; a missing wallet skips the store's half
SettleStoreRead(c) ==
  /\ pc[c].at = "settle_store_read"
  /\ pc' = [pc EXCEPT ![c] =
       IF wallets[pc[c].storeId].exists
       THEN [at |-> "settle_store_write", o |-> pc[c].o, fee |-> pc[c].fee,
             price |-> pc[c].price, storeId |-> pc[c].storeId,
             rider |-> pc[c].rider, w |-> wallets[pc[c].storeId]]
       ELSE RiderHalf(pc[c])]
  /\ UNCHANGED <<orders, bids, wallets, transactions, clock, cache, walletCache,
                 sweepQueue>>

\* payout: the store receives the product price, its fee leaves escrow, and
\* the IN transaction is recorded
SettleStoreWrite(c) ==
  /\ pc[c].at = "settle_store_write"
  /\ Len(transactions) < MaxTx
  /\ wallets' = [wallets EXCEPT
                   ![pc[c].storeId] = Released(pc[c].w, pc[c].price, pc[c].fee)]
  /\ transactions' = Append(transactions,
       Tx(pc[c].storeId, pc[c].price, "IN", "Product payment", pc[c].o))
  /\ pc' = [pc EXCEPT ![c] = RiderHalf(pc[c])]
  /\ UNCHANGED <<orders, bids, clock, cache, walletCache, sweepQueue>>

\* payout: fetch the courier's wallet; a missing wallet skips the courier's half
SettleRiderRead(c) ==
  /\ pc[c].at = "settle_rider_read"
  /\ pc' = [pc EXCEPT ![c] =
       IF wallets[pc[c].rider].exists
       THEN [at |-> "settle_rider_write", o |-> pc[c].o, fee |-> pc[c].fee,
             price |-> pc[c].price, rider |-> pc[c].rider,
             w |-> wallets[pc[c].rider]]
       ELSE Idle]
  /\ UNCHANGED <<orders, bids, wallets, transactions, clock, cache, walletCache,
                 sweepQueue>>

\* payout: the courier receives the fee, its collateral leaves escrow, and
\* the IN transaction is recorded
SettleRiderWrite(c) ==
  /\ pc[c].at = "settle_rider_write"
  /\ Len(transactions) < MaxTx
  /\ wallets' = [wallets EXCEPT
                   ![pc[c].rider] = Released(pc[c].w, pc[c].fee, pc[c].price)]
  /\ transactions' = Append(transactions,
       Tx(pc[c].rider, pc[c].fee, "IN", "Delivery fee payout", pc[c].o))
  /\ pc' = [pc EXCEPT ![c] = Idle]
  /\ UNCHANGED <<orders, bids, clock, cache, walletCache, sweepQueue>>

\* ------------------------------------------------------- specification
\* A refused deposit writes nothing and leaves the client idle again once the
\* alert is closed, so the tables and caches Next reaches are the same without
\* it; the refusals are steps of RaceNext.
Next ==
  \/ \E c \in Users : Refresh(c)
  \/ \E o \in OrderIds : SweepWrite(o)
  \/ \E c \in Users : FetchWallet(c)
  \/ \E c \in Users, p \in Prices, f \in SuggestedFees : CreateOrder(c, p, f)
  \/ \E c \in Users, o \in OrderIds, a \in BidAmounts : PlaceBid(c, o, a)
  \/ \E c \in Users, o \in OrderIds, b \in 1..MaxBids : SelectBidder(c, o, b)
  \/ \E c \in Users, o \in OrderIds : PayStoreEscrow(c, o)
  \/ \E c \in Users : StoreDepositRead(c)
  \/ \E c \in Users : StoreDepositOrder(c)
  \/ \E c \in Users, o \in OrderIds : PayDeliveryEscrow(c, o)
  \/ \E c \in Users : RiderDepositRead(c)
  \/ \E c \in Users : RiderDepositOrder(c)
  \/ \E c \in Users, o \in OrderIds, s \in Statuses : UpdateOrderStatus(c, o, s)
  \/ \E c \in Users : SettleStoreRead(c)
  \/ \E c \in Users : SettleStoreWrite(c)
  \/ \E c \in Users : SettleRiderRead(c)
  \/ \E c \in Users : SettleRiderWrite(c)

Spec == Init /\ [][Next]_vars

\* A sequential run: a handler starts only when no handler is in flight, every
\* fetch has been applied (all caches are fresh) and no update is pending.  The
\* self-healing queue stays empty in such a run, so SweepWrite has no step,
\* and a fresh wallet always covers the one deposit the portal offers, so no
\* deposit is refused.
Quiet ==
  /\ \A c \in Users : /\ pc[c] = Idle
                      /\ cache[c] = [orders |-> orders, bids |-> bids]
                      /\ wallets[c].exists
                      /\ walletCache[c] = wallets[c]
  /\ sweepQueue = {}

SeqNext ==
  \/ \E c \in Users : Refresh(c)
  \/ \E c \in Users : FetchWallet(c)
  \/ Quiet /\ \E c \in Users, p \in Prices, f \in SuggestedFees : CreateOrder(c, p, f)
  \/ Quiet /\ \E c \in Users, o \in OrderIds, a \in BidAmounts : PlaceBid(c, o, a)
  \/ Quiet /\ \E c \in Users, o \in OrderIds, b \in 1..MaxBids : SelectBidder(c, o, b)
  \/ Quiet /\ \E c \in Users, o \in OrderIds : PayStoreEscrow(c, o)
  \/ \E c \in Users : StoreDepositRead(c)
  \/ \E c \in Users : StoreDepositOrder(c)
  \/ Quiet /\ \E c \in Users, o \in OrderIds : PayDeliveryEscrow(c, o)
  \/ \E c \in Users : RiderDepositRead(c)
  \/ \E c \in Users : RiderDepositOrder(c)
  \/ Quiet /\ \E c \in Users, o \in OrderIds, s \in Statuses : UpdateOrderStatus(c, o, s)
  \/ \E c \in Users : SettleStoreRead(c)
  \/ \E c \in Users : SettleStoreWrite(c)
  \/ \E c \in Users : SettleRiderRead(c)
  \/ \E c \in Users : SettleRiderWrite(c)

SeqSpec == Init /\ [][SeqNext]_vars

\* no handler is in flight and every client has applied its fetches; a wallet
\* row that was never fetched may still be absent
Settled ==
  \A c \in Users : /\ pc[c] = Idle
                   /\ cache[c] = [orders |-> orders, bids |-> bids]
                   /\ (wallets[c].exists => walletCache[c] = wallets[c])

\* The deposit race on its own: the two deposits, the refusals and the refresh
\* sweep interleave freely, every other handler starts from a settled state.
RaceNext ==
  \/ \E c \in Users : Refresh(c)
  \/ \E o \in OrderIds : SweepWrite(o)
  \/ \E c \in Users : FetchWallet(c)
  \/ Settled /\ \E c \in Users, p \in Prices, f \in SuggestedFees : CreateOrder(c, p, f)
  \/ Settled /\ \E c \in Users, o \in OrderIds, a \in BidAmounts : PlaceBid(c, o, a)
  \/ Settled /\ \E c \in Users, o \in OrderIds, b \in 1..MaxBids : SelectBidder(c, o, b)
  \/ \E c \in Users, o \in OrderIds : PayStoreEscrow(c, o)
  \/ \E c \in Users : StoreDepositRead(c)
  \/ \E c \in Users : StoreDepositOrder(c)
  \/ \E c \in Users, o \in OrderIds : PayDeliveryEscrow(c, o)
  \/ \E c \in Users : RiderDepositRead(c)
  \/ \E c \in Users : RiderDepositOrder(c)
  \/ \E c \in Users, o \in OrderIds : RejectStoreDeposit(c, o)
  \/ \E c \in Users, o \in OrderIds : RejectRiderDeposit(c, o)
  \/ \E c \in Users : DismissAlert(c)
  \/ Settled /\ \E c \in Users, o \in OrderIds, s \in Statuses : UpdateOrderStatus(c, o, s)
  \/ \E c \in Users : SettleStoreRead(c)
  \/ \E c \in Users : SettleStoreWrite(c)
  \/ \E c \in Users : SettleRiderRead(c)
  \/ \E c \in Users : SettleRiderWrite(c)

RaceSpec == Init /\ [][RaceNext]_vars

\* Every request that was issued is answered: a fetch that is due is applied,
\* a self-healing update that was sent lands, and a deposit that has read the
\* other party's flag goes on to write the order.
FairSpec ==
  /\ Init /\ [][RaceNext]_vars
  /\ \A c \in Users : /\ WF_vars(Refresh(c))
                      /\ WF_vars(StoreDepositOrder(c))
                      /\ WF_vars(RiderDepositOrder(c))
  /\ \A o \in OrderIds : WF_vars(SweepWrite(o))

\* Completion called as the source alone allows: updateOrderStatus has no
\* guard on the order's status, its parties or their deposits, so an order can
\* be completed before a courier is assigned or while a party's wallet row
\* does not exist yet (a wallet row is created by its owner's first wallet
\* fetch).  Orders are created, bid on, assigned and completed, one handler at
\* a time on fresh caches (Settled); no deposit is made.
DirectNext ==
  \/ \E c \in Users : Refresh(c)
  \/ \E c \in Users : FetchWallet(c)
  \/ Settled /\ \E c \in Users, p \in Prices, f \in SuggestedFees : CreateOrder(c, p, f)
  \/ Settled /\ \E c \in Users, o \in OrderIds, a \in BidAmounts : PlaceBid(c, o, a)
  \/ Settled /\ \E c \in Users, o \in OrderIds, b \in 1..MaxBids : SelectBidder(c, o, b)
  \/ Settled /\ \E c \in Users, o \in OrderIds : UpdateOrderStatusCall(c, o, COMPLETED)
  \/ \E c \in Users : SettleStoreRead(c)
  \/ \E c \in Users : SettleStoreWrite(c)
  \/ \E c \in Users : SettleRiderRead(c)
  \/ \E c \in Users : SettleRiderWrite(c)

DirectSpec == Init /\ [][DirectNext]_vars

\* ---------------------------------------------------------------- claims
\* the transactions of user u, of a type, that name order o
TxOf(u, type, o) ==
  {i \in DOMAIN transactions : /\ transactions[i].user_id = u
                               /\ transactions[i].type = type
                               /\ transactions[i].description[2] = o}

\* the fee of order o on the backend's own rows
DbFee(o) ==
  IF /\ orders[o].chosenBidId \in DOMAIN bids
     /\ bids[orders[o].chosenBidId].orderId = o
  THEN bids[orders[o].chosenBidId].proposedFee
  ELSE orders[o].suggestedDeliveryFee

\* C1: every wallet has balance >= 0 and escrow >= 0 in every reachable state.
C1_WalletsNonNegative ==
  \A u \in Users : wallets[u].balance >= 0 /\ wallets[u].escrow >= 0

\* C2: settlement runs at most once per order: at most one IN transaction
\* per order is recorded for the store and at most one for the courier.
C2_SettlementOnce ==
  \A o \in OrderIds, u \in Users : Cardinality(TxOf(u, "IN", o)) <= 1

\* C3: an order is READY_FOR_PICKUP or later if and only if both escrow flags
\* are true.
C3_ReadyIffBothDeposited ==
  \A o \in OrderIds :
    orders[o].exists =>
      (Rank(orders[o].status) >= Rank(READY_FOR_PICKUP)
         <=> (orders[o].storeDeposited /\ orders[o].riderDeposited))

\* the pair a replay of the first n transactions gives user u, from the wallet
\* row as created: (0, 0) and the funds the row is created with
RECURSIVE Replay(_, _)
Replay(u, n) ==
  IF n = 0 THEN [balance |-> OpeningBalance, escrow |-> 0]
  ELSE LET prev == Replay(u, n - 1)
           t == transactions[n]
           o == t.description[2]
           release == IF t.description[1] = "Product payment"
                      THEN DbFee(o) ELSE orders[o].productPrice
       IN  IF t.user_id # u THEN prev
           ELSE IF t.type = "OUT"
           THEN [balance |-> prev.balance - t.amount, escrow |-> prev.escrow + t.amount]
           ELSE [balance |-> prev.balance + t.amount, escrow |-> prev.escrow - release]

\* C4: replaying a user's transactions in timestamp order (an OUT of a moves a
\* from balance to escrow, an IN adds its amount to balance and releases the
\* escrow settlement releases) reproduces the wallet's (balance, escrow).
C4_ReplayReproducesWallet ==
  \A u \in Users :
    wallets[u].exists =>
      Replay(u, Len(transactions))
        = [balance |-> wallets[u].balance, escrow |-> wallets[u].escrow]

\* C5: there is at most one bid per (order, courier) pair.
C5_OneBidPerCourier ==
  \A i, j \in DOMAIN bids :
    (bids[i].orderId = bids[j].orderId /\ bids[i].deliveryGuyId = bids[j].deliveryGuyId)
      => i = j

\* C6: once an order has left BIDDING the bid store is read-only for it: no
\* step changes one of its bids and no step inserts a bid for it.
C6_BidsFrozenAfterBidding ==
  [][ /\ \A i \in DOMAIN bids :
           orders[bids[i].orderId].status # BIDDING => bids'[i] = bids[i]
      /\ \A i \in DOMAIN bids' \ DOMAIN bids :
           orders[bids'[i].orderId].status = BIDDING ]_vars

\* C7: no step moves an order's stored status to an earlier state of
\* BIDDING < AWAITING_ESCROW < READY_FOR_PICKUP < COMPLETED (so COMPLETED,
\* the last one, never changes).
C7_StatusMonotonic ==
  [][ \A o \in OrderIds :
        orders[o].exists => Rank(orders'[o].status) >= Rank(orders[o].status) ]_vars

\* C8: for every order, the fee payStoreEscrow debited from the store (its OUT
\* transaction) equals the fee settlement paid to the courier (the courier's
\* IN transaction).
C8_DepositFeeIsSettlementFee ==
  \A o \in OrderIds, s \in Stores, r \in Riders :
    \A i \in TxOf(s, "OUT", o), j \in TxOf(r, "IN", o) :
      transactions[i].amount = transactions[j].amount

\* the wallet row w with its balance and escrow moved by db and de
Moved(w, db, de) ==
  [exists |-> TRUE, balance |-> w.balance + db, escrow |-> w.escrow + de]

\* one step of a sequential run, held against the rows stored before it
C9_Step ==
  \A c \in Users :
    /\ (pc[c] = Idle /\ pc'[c].at = "store_read") =>
         LET o == pc'[c].o
         IN  /\ wallets'[c] = Moved(wallets[c], 0 - DbFee(o), DbFee(o))
             /\ orders'[o].status = AWAITING_ESCROW
    /\ (pc[c].at = "store_order" /\ pc'[c] = Idle /\ ~orders[pc[c].o].riderDeposited) =>
         orders'[pc[c].o].status = AWAITING_ESCROW
    /\ (pc[c] = Idle /\ pc'[c].at = "rider_read") =>
         LET o == pc'[c].o
         IN  wallets'[c] = Moved(wallets[c], 0 - orders[o].productPrice,
                                 orders[o].productPrice)
    /\ (pc[c].at = "rider_order" /\ pc'[c] = Idle /\ orders[pc[c].o].storeDeposited) =>
         orders'[pc[c].o].status = READY_FOR_PICKUP
    /\ (pc[c].at = "settle_store_write" /\ pc'[c] # pc[c]) =>
         LET o == pc[c].o
         IN  wallets'[orders[o].storeId] =
               Moved(wallets[orders[o].storeId], orders[o].productPrice, 0 - DbFee(o))
    /\ (pc[c].at = "settle_rider_write" /\ pc'[c] # pc[c]) =>
         LET o == pc[c].o
         IN  wallets'[orders[o].deliveryGuyId] =
               Moved(wallets[orders[o].deliveryGuyId], DbFee(o),
                     0 - orders[o].productPrice)

\* the wallets once the scenario has run to its end, no other order having
\* moved funds
C9_Final ==
  \A o \in OrderIds :
    (/\ orders[o].status = COMPLETED
     /\ \A c \in Users : pc[c] = Idle
     /\ \A i \in DOMAIN transactions : transactions[i].description[2] = o) =>
      /\ wallets[orders[o].storeId] =
           [exists |-> TRUE,
            balance |-> OpeningBalance - DbFee(o) + orders[o].productPrice,
            escrow |-> 0]
      /\ wallets[orders[o].deliveryGuyId] =
           [exists |-> TRUE,
            balance |-> OpeningBalance - orders[o].productPrice + DbFee(o),
            escrow |-> 0]

Swept(ords) ==
  [o \in OrderIds |-> IF o \in Stuck(ords)
                      THEN [ords[o] EXCEPT !.status = HealedStatus]
                      ELSE ords[o]]

\* a fetch queues an update for exactly the orders it finds AWAITING_ESCROW
\* with both flags true; an update sets its order's status to
\* READY_FOR_PICKUP and changes nothing else of the order store
C10_Step ==
  LET found == {o \in OrderIds : /\ orders[o].exists
                                 /\ orders[o].status = AWAITING_ESCROW
                                 /\ orders[o].storeDeposited
                                 /\ orders[o].riderDeposited}
  IN  /\ (cache' # cache \/ ~(sweepQueue' \subseteq sweepQueue)) =>
           /\ sweepQueue' = sweepQueue \cup found
           /\ orders' = orders
      /\ (sweepQueue' # sweepQueue /\ sweepQueue' \subseteq sweepQueue) =>
           \E o \in sweepQueue :
             /\ sweepQueue' = sweepQueue \ {o}
             /\ orders' = [orders EXCEPT ![o].status = READY_FOR_PICKUP]

\* C10: the refresh sweep sets to READY_FOR_PICKUP every order it finds in
\* AWAITING_ESCROW with both escrow flags true and changes the status of no
\* other order; run twice in a row it yields the order store one run yields.
C10_SweepExactAndIdempotent ==
  [][C10_Step]_vars /\ [](Swept(Swept(orders)) = Swept(orders))

\* a client fetched the order stuck and the order has since been healed
C10_Witness ==
  \E o \in OrderIds, c \in Users :
    /\ o \in Stuck(cache[c].orders)
    /\ o \notin sweepQueue
    /\ orders[o].status = READY_FOR_PICKUP

\* a step of the refresh sweep: a fetch is applied or a self-healing update
\* reaches the orders table
SweepStep == cache' # cache \/ sweepQueue' # sweepQueue

\* C11: the refresh sweep leaves every wallet, the transaction log, the bids
\* and each order's escrow flags, selected bid and assigned courier unchanged,
\* and starts no payout.
C11_SweepFrame ==
  [][ SweepStep =>
        /\ wallets' = wallets
        /\ transactions' = transactions
        /\ bids' = bids
        /\ pc' = pc
        /\ \A o \in OrderIds :
             /\ orders'[o].storeDeposited = orders[o].storeDeposited
             /\ orders'[o].riderDeposited = orders[o].riderDeposited
             /\ orders'[o].chosenBidId = orders[o].chosenBidId
             /\ orders'[o].deliveryGuyId = orders[o].deliveryGuyId ]_vars

\* a self-healing update has been issued for an order whose parties hold
\* their deposits in escrow
C11_Witness ==
  \E o \in sweepQueue :
    /\ o \in Stuck(orders)
    /\ wallets[orders[o].storeId].escrow > 0
    /\ wallets[orders[o].deliveryGuyId].escrow > 0
    /\ Len(transactions) >= 2

\* C12: a deposit refused for insufficient funds (or a wallet not loaded) is
\* refused before any write: the wallets, the transaction log and the orders
\* (escrow flags and status) are as they were.
C12_RefusedDepositWritesNothing ==
  [][ \A c \in Users :
        (pc[c] = Idle /\ pc'[c].at = "alert") =>
          /\ wallets' = wallets
          /\ transactions' = transactions
          /\ orders' = orders
          /\ bids' = bids ]_vars

\* a courier whose loaded wallet no longer covers the product price has been
\* refused
C12_Witness ==
  \E c \in Riders :
    /\ pc[c].at = "alert"
    /\ walletCache[c].exists
    /\ walletCache[c].balance < CachedOrder(c, pc[c].o).productPrice

\* C13: updateOrderStatus(o, COMPLETED) issued while the stored status of o is
\* already COMPLETED writes nothing and starts no payout.
C13_RepeatedStatusIsNoOp ==
  [][ \A c \in Users :
        (pc[c] = Idle /\ pc'[c].at = "settle_store_read") =>
          orders[pc'[c].o].status # COMPLETED ]_vars

\* what a wallet holds: balance plus escrow, nothing while the row is absent
Holds(u) == IF wallets[u].exists THEN wallets[u].balance + wallets[u].escrow ELSE 0

RECURSIVE TotalOver(_)
TotalOver(S) ==
  IF S = {} THEN 0
  ELSE LET u == CHOOSE x \in S : TRUE IN Holds(u) + TotalOver(S \ {u})

\* the funds in the system
Total == TotalOver(Users)

\* C14: the funds in the system are conserved by every escrow deposit: the
\* step that debits the depositor's wallet leaves the sum over all wallets of
\* balance + escrow as it was.
C14_DepositConservesFunds ==
  [][ \A c \in Users :
        (pc[c] = Idle /\ pc'[c].at \in {"store_read", "rider_read"}) =>
          Total' = Total ]_vars

\* C15: the payout changes the store's wallet by exactly balance + price,
\* escrow - fee and the courier's wallet by exactly balance + fee,
\* escrow - price, each relative to the row stored immediately before the
\* write, and records exactly one IN transaction per wallet (the price for the
\* store, the fee for the courier).
C15_PayoutAmounts ==
  [][ \A c \in Users :
        /\ (pc[c].at = "settle_store_write" /\ pc'[c] # pc[c]) =>
             /\ wallets'[pc[c].storeId] =
                  Moved(wallets[pc[c].storeId], pc[c].price, 0 - pc[c].fee)
             /\ transactions' = Append(transactions,
                  Tx(pc[c].storeId, pc[c].price, "IN", "Product payment", pc[c].o))
        /\ (pc[c].at = "settle_rider_write" /\ pc'[c] # pc[c]) =>
             /\ wallets'[pc[c].rider] =
                  Moved(wallets[pc[c].rider], pc[c].fee, 0 - pc[c].price)
             /\ transactions' = Append(transactions,
                  Tx(pc[c].rider, pc[c].fee, "IN", "Delivery fee payout", pc[c].o))
    ]_vars

\* C16: the two halves of the payout are independent.  A missing store wallet
\* skips the store's half, writing nothing, and the payout goes on to the
\* courier; a courier wallet found is released and its transaction recorded
\* whatever happened to the store's half; a missing courier wallet, or no
\* assigned courier, ends the payout with the store's half applied and nothing
\* more written; no step of the payout touches the order, which stays as the
\* status update left it.
C16_HalvesIndependent ==
  [][ \A c \in Users :
        /\ (pc[c].at = "settle_store_read" /\ pc'[c] # pc[c]) =>
             /\ wallets' = wallets /\ transactions' = transactions
             /\ orders' = orders
             /\ ~wallets[pc[c].storeId].exists =>
                  pc'[c].at = (IF pc[c].rider # NoUser
                               THEN "settle_rider_read" ELSE "idle")
             /\ wallets[pc[c].storeId].exists => pc'[c].at = "settle_store_write"
        /\ (pc[c].at = "settle_store_write" /\ pc'[c] # pc[c]) =>
             /\ wallets' = [wallets EXCEPT ![pc[c].storeId] =
                              Released(pc[c].w, pc[c].price, pc[c].fee)]
             /\ Len(transactions') = Len(transactions) + 1
             /\ orders' = orders
             /\ pc'[c].at = (IF pc[c].rider # NoUser
                             THEN "settle_rider_read" ELSE "idle")
        /\ (pc[c].at = "settle_rider_read" /\ pc'[c] # pc[c]) =>
             /\ wallets' = wallets /\ transactions' = transactions
             /\ orders' = orders
             /\ pc'[c].at = (IF wallets[pc[c].rider].exists
                             THEN "settle_rider_write" ELSE "idle")
        /\ (pc[c].at = "settle_rider_write" /\ pc'[c] # pc[c]) =>
             /\ wallets' = [wallets EXCEPT ![pc[c].rider] =
                              Released(pc[c].w, pc[c].fee, pc[c].price)]
             /\ transactions' = Append(transactions,
                  Tx(pc[c].rider, pc[c].fee, "IN", "Delivery fee payout", pc[c].o))
             /\ orders' = orders
             /\ pc'[c] = Idle
    ]_vars

\* an order completed while its store had no wallet row: the courier has been
\* paid, the store's half left no transaction, the order is COMPLETED
C16_Witness ==
  \E o \in OrderIds :
    /\ orders[o].exists /\ orders[o].status = COMPLETED
    /\ ~wallets[orders[o].storeId].exists
    /\ orders[o].deliveryGuyId # NoUser
    /\ TxOf(orders[o].deliveryGuyId, "IN", o) # {}
    /\ TxOf(orders[o].storeId, "IN", o) = {}
    /\ \A c \in Users : pc[c] = Idle

\* both deposits on order o have read the other party's flag as false and are
\* about to write the order
RaceRead(o) ==
  \E s \in Users, r \in Users :
    /\ pc[s].at = "store_order" /\ pc[s].o = o /\ ~pc[s].isPaid
    /\ pc[r].at = "rider_order" /\ pc[r].o = o /\ ~pc[r].isPaid

\* C17: when each of the two deposits on an order has read the other's flag
\* as false, so that both flags end up true under AWAITING_ESCROW, the order
\* eventually becomes READY_FOR_PICKUP, provided the refresh runs.
C17_RaceHeals ==
  \A o \in OrderIds : RaceRead(o) ~> (orders[o].status = READY_FOR_PICKUP)

\* the two deposits crossed and no refresh has seen the order since
C17_Witness ==
  \E o \in OrderIds :
    /\ o \in Stuck(orders)
    /\ \A c \in Users : pc[c] = Idle /\ o \notin Stuck(cache[c].orders)
    /\ sweepQueue = {}

\* C18: an order has a selected bid iff it has an assigned courier; the
\* selected bid is a bid on that order and the assigned courier is that bid's
\* courier; an order in BIDDING has neither.
C18_SelectionConsistent ==
  \A o \in OrderIds :
    orders[o].exists =>
      /\ (orders[o].chosenBidId # NoBid) <=> (orders[o].deliveryGuyId # NoUser)
      /\ orders[o].chosenBidId # NoBid =>
           /\ orders[o].chosenBidId \in DOMAIN bids
           /\ bids[orders[o].chosenBidId].orderId = o
           /\ bids[orders[o].chosenBidId].deliveryGuyId = orders[o].deliveryGuyId
      /\ orders[o].status = BIDDING =>
           /\ orders[o].chosenBidId = NoBid
           /\ orders[o].deliveryGuyId = NoUser

\* the store has selected the later of two bids on its order
C18_Witness ==
  \E o \in OrderIds :
    /\ orders[o].exists
    /\ Len(bids) = 2
    /\ orders[o].chosenBidId = 2
    /\ orders[o].status = AWAITING_ESCROW

\* C19: every escrow deposit lowers the depositor's stored balance by exactly
\* the amount and raises its stored escrow by exactly the amount, relative to
\* the wallet row stored immediately before the write, and records exactly one
\* OUT transaction of that amount, also when the depositor's cached wallet is
\* out of date.
C19_DepositAgainstStoredRow ==
  [][ \A c \in Users :
        (pc[c] = Idle /\ pc'[c].at \in {"store_read", "rider_read"}) =>
          /\ Len(transactions') = Len(transactions) + 1
          /\ LET t == transactions'[Len(transactions')]
             IN  /\ t.user_id = c /\ t.type = "OUT"
                 /\ wallets'[c] = Moved(wallets[c], 0 - t.amount, t.amount) ]_vars

\* C20: each party's escrow is debited at most once per order: the log holds
\* at most one OUT transaction of the store and at most one of the courier
\* for any one order.
C20_OneDebitPerParty ==
  \A o \in OrderIds, u \in Users : Cardinality(TxOf(u, "OUT", o)) <= 1

\* C21: the payout releases only escrow that was deposited: whenever
\* updateOrderStatus starts the payout for an order, the order's stored
\* storeDeposited and riderDeposited are both true and its stored status is
\* neither BIDDING nor AWAITING_ESCROW.
C21_PayoutOnlyAfterDeposits ==
  [][ \A c \in Users :
        (pc[c] = Idle /\ pc'[c].at = "settle_store_read") =>
          LET o == pc'[c].o
          IN  /\ orders[o].storeDeposited
              /\ orders[o].riderDeposited
              /\ orders[o].status \notin {BIDDING, AWAITING_ESCROW} ]_vars

====
